---- MODULE Spec2Model ----
(***************************************************************************)
(* Model of src/src/pages/Index.tsx (KinectScene): the video texture       *)
(* source and its autoplay fallback, the point grid generator, the         *)
(* luminance-to-depth mapping of the vertex shader, the parameter panel    *)
(* pushing into the shader uniforms, and the per-frame camera ease.        *)
(*                                                                         *)
(* Four specifications share the module:                                   *)
(*   Spec        the video source life cycle (mount effect, media events,  *)
(*               play() promise callbacks, document clicks, unmount)       *)
(*   GridSpec    the geometry loop of the useMemo                          *)
(*   PanelSpec   controls, the uniform update effect, rendered frames      *)
(*   CameraSpec  pointer moves and the useFrame camera ease                *)
(* Each specification holds the variables of the others at their initial   *)
(* values.                                                                 *)
(*                                                                         *)
(* Strings of the source that are written in Russian are transliterated.   *)
(* A template literal is a sequence of its fragments (literal parts and    *)
(* interpolated values), so "the text contains s" is "s is a fragment, or  *)
(* s is empty".                                                            *)
(***************************************************************************)
EXTENDS Integers, Sequences, FiniteSets, TLC

VARIABLES
    \* ---- video source (Spec) ----
    phase,            \* "commit": rendered, effects not yet run; "live"; "unmounted"
    videoLoadError,   \* useState<string|null>: NoOverlay or a text
    videoPlaying,     \* useState(false)
    paused,           \* video.paused
    videoError,       \* video.error: NoError or [code, message]
    inBody,           \* document.body.contains(video)
    videoListeners,   \* listeners registered on the video element
    clickHandlers,    \* number of 'click' listeners on document (playOnClick)
    mouseMoveHandler, \* 'mousemove' listener on document registered
    textureDisposed,  \* texture.dispose() has been called
    playEventQueued,  \* a 'play' event task is queued on the video element
    initPromise,      \* the play() promise of the effect
    clickPromise,     \* the play() promise of the latest playOnClick
    \* ---- point grid (GridSpec) ----
    width, height, vertices, gi, gj, gpc,
    \* ---- panel and uniforms (PanelSpec) ----
    controls, uniforms, meshAttached, effectPending, frameShot,
    \* ---- camera (CameraSpec) ----
    mouseRef, camNum, frames

videoVars == <<phase, videoLoadError, videoPlaying, paused, videoError, inBody,
               videoListeners, clickHandlers, mouseMoveHandler, textureDisposed,
               playEventQueued, initPromise, clickPromise>>
gridVars == <<width, height, vertices, gi, gj, gpc>>
panelVars == <<controls, uniforms, meshAttached, effectPending, frameShot>>
cameraVars == <<mouseRef, camNum, frames>>
vars == <<videoVars, gridVars, panelVars, cameraVars>>
otherThanVideo == <<gridVars, panelVars, cameraVars>>
otherThanGrid == <<videoVars, panelVars, cameraVars>>
otherThanPanel == <<videoVars, gridVars, cameraVars>>
otherThanCamera == <<videoVars, gridVars, panelVars>>

----------------------------------------------------------------------------
(* Video texture source                                                    *)

NoOverlay == <<>>
NoError == [code |-> 0, message |-> ""]

\* MediaError.code is 1..4; MEDIA_ERR_SRC_NOT_SUPPORTED is 4
MediaErrorCodes == {1, 2, 3, 4}
MediaErrorMessages == {"", "format not supported"}
MediaErrors == [code : MediaErrorCodes, message : MediaErrorMessages]
SrcNotSupported == 4

\* messages of the error a rejected play() promise carries
PlayErrorMessages == {"", "play() request was interrupted"}

\* `${n}` of a number
ToStr(n) == CASE n = 1 -> "1" [] n = 2 -> "2" [] n = 3 -> "3" [] n = 4 -> "4"
              [] OTHER -> "0"

\* handleVideoError with the code left out of the text
ErrorTextWithoutCode(err) ==
    << "Ne udalos zagruzit video. Soobshchenie: ",
       IF err = NoError \/ err.message = "" THEN "Net soobshcheniya." ELSE err.message,
       " Poprobuyte kliknut po ekranu." >>

\* the text of handleVideoError, from video.error
ErrorText(err) ==
    << "Ne udalos zagruzit video. Kod oshibki: ",
       IF err = NoError \/ err.code = 0 THEN "neizvestno" ELSE ToStr(err.code),
       ". Soobshchenie: ",
       IF err = NoError \/ err.message = "" THEN "Net soobshcheniya." ELSE err.message,
       " Poprobuyte kliknut po ekranu." >>

BlockedText ==
    << "Avtovosproizvedenie zablokirovano. Kliknite v lyubom meste ekrana dlya zapuska." >>

\* the text of the click retry's catch, from clickError.message
ClickFailText(msg) ==
    << "Ne udalos vosproizvesti video dazhe posle klika. Oshibka: ",
       IF msg = "" THEN "neizvestno" ELSE msg,
       "." >>

Contains(text, s) == s = "" \/ \E i \in 1..Len(text) : text[i] = s

\* a state setter of an unmounted component is a no-op
SetState(cur, v) == IF phase = "live" THEN v ELSE cur

\* a promise whose rejection callback is the next thing to run
CallbackDue == initPromise = "rejecting" \/ clickPromise = "rejecting"

\* video.play() on a paused element: "start" (paused becomes false, a 'play'
\* event is queued, the promise is pending) or "reject" (rejected at once:
\* not allowed to play, or the source is known to be unsupported)
PlayOutcomes ==
    IF videoError # NoError /\ videoError.code = SrcNotSupported
    THEN {"reject"} ELSE {"start", "reject"}

VideoInit ==
    /\ phase = "commit"
    /\ videoLoadError = NoOverlay
    /\ videoPlaying = FALSE
    /\ paused = TRUE
    /\ videoError = NoError
    /\ inBody = FALSE
    /\ videoListeners = {}
    /\ clickHandlers = 0
    /\ mouseMoveHandler = FALSE
    /\ textureDisposed = FALSE
    /\ playEventQueued = FALSE
    /\ initPromise = "none"
    /\ clickPromise = "none"

\* the effects of the mount: the video effect up to the play() call and the
\* mousemove effect
VideoEffect ==
    /\ phase = "commit"
    /\ phase' = "live"
    /\ videoListeners' = {"error", "play"}
    /\ inBody' = TRUE
    /\ mouseMoveHandler' = TRUE
    /\ \E outcome \in PlayOutcomes :
         IF outcome = "start"
         THEN paused' = FALSE /\ playEventQueued' = TRUE /\ initPromise' = "pending"
         ELSE paused' = paused /\ playEventQueued' = FALSE /\ initPromise' = "rejecting"
    /\ UNCHANGED <<videoLoadError, videoPlaying, videoError, clickHandlers,
                   textureDisposed, clickPromise>>
    /\ UNCHANGED otherThanVideo

\* handleVideoPlay
HandleVideoPlay ==
    /\ ~CallbackDue
    /\ playEventQueued
    /\ playEventQueued' = FALSE
    /\ IF "play" \in videoListeners
       THEN /\ videoPlaying' = SetState(videoPlaying, TRUE)
            /\ videoLoadError' = SetState(videoLoadError, NoOverlay)
       ELSE UNCHANGED <<videoPlaying, videoLoadError>>
    /\ UNCHANGED <<phase, paused, videoError, inBody, videoListeners, clickHandlers,
                   mouseMoveHandler, textureDisposed, initPromise,
                   clickPromise>>
    /\ UNCHANGED otherThanVideo

\* the video's 'error' event with video.error set, heard by handleVideoError
\* while it is registered; a source that is not supported also rejects the
\* pending play() promises
HandleVideoError ==
    /\ ~CallbackDue
    /\ phase # "commit"
    /\ ~playEventQueued
    /\ \E err \in MediaErrors :
        /\ videoError' = err
        /\ IF "error" \in videoListeners
           THEN /\ videoLoadError' = SetState(videoLoadError, ErrorText(err))
                /\ videoPlaying' = SetState(videoPlaying, FALSE)
           ELSE UNCHANGED <<videoLoadError, videoPlaying>>
        /\ initPromise' = IF err.code = SrcNotSupported /\ initPromise = "pending"
                          THEN "rejecting" ELSE initPromise
        /\ clickPromise' = IF err.code = SrcNotSupported /\ clickPromise = "pending"
                           THEN "rejecting" ELSE clickPromise
    /\ UNCHANGED <<phase, paused, inBody, videoListeners, clickHandlers,
                   mouseMoveHandler, textureDisposed, playEventQueued>>
    /\ UNCHANGED otherThanVideo

\* playPromise.then
InitialThen ==
    /\ ~CallbackDue
    /\ initPromise = "pending"
    /\ ~playEventQueued
    /\ ~paused
    /\ videoError = NoError
    /\ initPromise' = "resolved"
    /\ videoPlaying' = SetState(videoPlaying, TRUE)
    /\ videoLoadError' = SetState(videoLoadError, NoOverlay)
    /\ UNCHANGED <<phase, paused, videoError, inBody, videoListeners, clickHandlers,
                   mouseMoveHandler, textureDisposed, playEventQueued,
                   clickPromise>>
    /\ UNCHANGED otherThanVideo

\* playPromise.catch
InitialCatch ==
    /\ initPromise = "rejecting"
    /\ initPromise' = "rejected"
    /\ videoLoadError' = SetState(videoLoadError, BlockedText)
    /\ videoPlaying' = SetState(videoPlaying, FALSE)
    /\ clickHandlers' = clickHandlers + 1
    /\ UNCHANGED <<phase, paused, videoError, inBody, videoListeners,
                   mouseMoveHandler, textureDisposed, playEventQueued,
                   clickPromise>>
    /\ UNCHANGED otherThanVideo

\* a document click: playOnClick up to its play() call
PlayOnClick ==
    /\ ~CallbackDue
    /\ clickHandlers > 0
    /\ IF ~paused
       THEN /\ clickHandlers' = clickHandlers - 1
            /\ UNCHANGED <<paused, playEventQueued, clickPromise>>
       ELSE /\ clickHandlers' = clickHandlers
            /\ \E outcome \in PlayOutcomes :
                 IF outcome = "start"
                 THEN paused' = FALSE /\ playEventQueued' = TRUE
                      /\ clickPromise' = "pending"
                 ELSE paused' = paused /\ playEventQueued' = playEventQueued
                      /\ clickPromise' = "rejecting"
    /\ UNCHANGED <<phase, videoLoadError, videoPlaying, videoError, inBody,
                   videoListeners, mouseMoveHandler, textureDisposed,
                   initPromise>>
    /\ UNCHANGED otherThanVideo

\* the click retry's then without its removeEventListener
ClickThenKeepsHandler == clickHandlers

\* what the click retry's then does to the document's click listeners
ClickThenHandlers == IF clickHandlers > 0 THEN clickHandlers - 1 ELSE 0

\* the then of playOnClick's play()
ClickThen ==
    /\ ~CallbackDue
    /\ clickPromise = "pending"
    /\ ~playEventQueued
    /\ ~paused
    /\ videoError = NoError
    /\ clickPromise' = "resolved"
    /\ videoPlaying' = SetState(videoPlaying, TRUE)
    /\ videoLoadError' = SetState(videoLoadError, NoOverlay)
    /\ clickHandlers' = ClickThenHandlers
    /\ UNCHANGED <<phase, paused, videoError, inBody, videoListeners,
                   mouseMoveHandler, textureDisposed, playEventQueued,
                   initPromise>>
    /\ UNCHANGED otherThanVideo

\* the catch of playOnClick's play()
ClickCatch ==
    /\ clickPromise = "rejecting"
    /\ clickPromise' = "rejected"
    /\ \E msg \in PlayErrorMessages :
         videoLoadError' = SetState(videoLoadError, ClickFailText(msg))
    /\ UNCHANGED <<phase, videoPlaying, paused, videoError, inBody, videoListeners,
                   clickHandlers, mouseMoveHandler, textureDisposed,
                   playEventQueued, initPromise>>
    /\ UNCHANGED otherThanVideo

\* the user agent pauses the element (its pause steps reject the pending
\* play() promises); no listener of the component hears 'pause'
UserAgentPause ==
    /\ ~CallbackDue
    /\ phase = "live"
    /\ ~paused
    /\ ~playEventQueued
    /\ paused' = TRUE
    /\ initPromise' = IF initPromise = "pending" THEN "rejecting" ELSE initPromise
    /\ clickPromise' = IF clickPromise = "pending" THEN "rejecting" ELSE clickPromise
    /\ UNCHANGED <<phase, videoLoadError, videoPlaying, videoError, inBody,
                   videoListeners, clickHandlers, mouseMoveHandler, textureDisposed,
                   playEventQueued>>
    /\ UNCHANGED otherThanVideo

\* unmount: the cleanup of the video effect and of the mousemove effect;
\* removing a playing element from the document pauses it, which rejects
\* what is pending
Unmount ==
    /\ ~CallbackDue
    /\ phase = "live"
    /\ phase' = "unmounted"
    /\ videoListeners' = IF inBody THEN {} ELSE videoListeners
    /\ inBody' = FALSE
    /\ textureDisposed' = TRUE
    /\ mouseMoveHandler' = FALSE
    /\ clickHandlers' = clickHandlers
    /\ paused' = TRUE
    /\ initPromise' = IF initPromise = "pending" THEN "rejecting" ELSE initPromise
    /\ clickPromise' = IF clickPromise = "pending" THEN "rejecting" ELSE clickPromise
    /\ UNCHANGED <<videoLoadError, videoPlaying, videoError,
                   playEventQueued>>
    /\ UNCHANGED otherThanVideo

VideoNext ==
    \/ VideoEffect
    \/ HandleVideoPlay
    \/ HandleVideoError
    \/ InitialThen
    \/ InitialCatch
    \/ PlayOnClick
    \/ ClickThen
    \/ ClickCatch
    \/ UserAgentPause
    \/ Unmount


----------------------------------------------------------------------------
(* Point grid generator: the loop of the geometry useMemo                  *)

MaxWidth == 4
MaxHeight == 4

\* vertices[i] = j % width
ColumnOf(j, w) == j % w

\* the row taken with an off-by-one divisor
RowOfOffByOne(j, w) == j \div (w + 1)

\* vertices[i + 1] = Math.floor(j / width)
RowOf(j, w) == j \div w

\* new Float32Array(width * height * 3): all zero; index k of the source is
\* index k + 1 here
GridInit ==
    /\ width \in 1..MaxWidth
    /\ height \in 1..MaxHeight
    /\ vertices = [k \in 1..(width * height * 3) |-> 0]
    /\ gi = 0
    /\ gj = 0
    /\ gpc = "loop"

\* one iteration of the for loop
GridLoopBody ==
    /\ gpc = "loop"
    /\ gi < Len(vertices)
    /\ vertices' = [vertices EXCEPT ![gi + 1] = ColumnOf(gj, width),
                                    ![gi + 2] = RowOf(gj, width)]
    /\ gi' = gi + 3
    /\ gj' = gj + 1
    /\ UNCHANGED <<width, height, gpc>>
    /\ UNCHANGED otherThanGrid

\* the loop condition fails: geo.setAttribute('position', ...)
GridLoopExit ==
    /\ gpc = "loop"
    /\ ~(gi < Len(vertices))
    /\ gpc' = "done"
    /\ UNCHANGED <<width, height, vertices, gi, gj>>
    /\ UNCHANGED otherThanGrid

GridNext == GridLoopBody \/ GridLoopExit

\* entry j of the position attribute (itemSize 3)
Position(j) == <<vertices[3 * j + 1], vertices[3 * j + 2], vertices[3 * j + 3]>>

----------------------------------------------------------------------------
(* Parameter panel, shader uniforms, rendered frames                       *)

\* values the panel can hold; circleRadius is in hundredths
ClipValues == {1, 850, 4000, 10000}
PointSizeValues == {2, 10}
ZOffsetValues == {0, 1000}
CircleRadiusValues == {0, 70}
ColorValues == {"#0300ff", "#cccccc"}

ControlNames == {"nearClipping", "farClipping", "pointSize", "zOffset",
                 "circleRadius", "videoColor"}

ControlRange(name) ==
    CASE name = "nearClipping" -> ClipValues
      [] name = "farClipping" -> ClipValues
      [] name = "pointSize" -> PointSizeValues
      [] name = "zOffset" -> ZOffsetValues
      [] name = "circleRadius" -> CircleRadiusValues
      [] name = "videoColor" -> ColorValues

\* the values useControls starts with
ControlDefaults ==
    [nearClipping |-> 850, farClipping |-> 4000, pointSize |-> 2, zOffset |-> 1000,
     circleRadius |-> 70, videoColor |-> "#0300ff"]

\* the uniforms the ShaderMaterial is constructed with
InitialUniforms ==
    [map |-> "null", width |-> 640, height |-> 480,
     nearClipping |-> 850, farClipping |-> 4000, pointSize |-> 2, zOffset |-> 1000,
     circleRadius |-> 50, videoColor |-> "#cccccc"]

\* a texel channel has levels 0..MaxLevel; luminance (r + g + b) / 3 is then
\* s / LumDen for s = r + g + b
MaxLevel == 2
LumDen == 3 * MaxLevel
LumLevels == 0..LumDen

\* the mapping without the inversion (1.0 - depth)
DepthNotInverted(s, near, far) == s * (far - near) + near * LumDen

\* z of the vertex shader, times LumDen, for luminance s / LumDen:
\* z = (1.0 - depth) * (farClipping - nearClipping) + nearClipping
Depth(s, near, far) == (LumDen - s) * (far - near) + near * LumDen

NoFrame == [drawn |-> FALSE, synced |-> TRUE, near |-> 0, far |-> 0]

\* state after the first commit: the material exists, the ref is attached,
\* the passive effects have not run yet
PanelInit ==
    /\ controls = ControlDefaults
    /\ uniforms = InitialUniforms
    /\ meshAttached = TRUE
    /\ effectPending = TRUE
    /\ frameShot = NoFrame

\* the uniforms after the uniform update effect has run with controls c
Pushed(u, c) ==
    [u EXCEPT !.nearClipping = c.nearClipping,
              !.farClipping = c.farClipping,
              !.pointSize = c.pointSize,
              !.zOffset = c.zOffset,
              !.circleRadius = c.circleRadius,
              !.videoColor = c.videoColor]

\* the passive effects of a commit: on mount the video effect sets the map
\* uniform, and the uniform update effect runs whenever a control changed
UniformEffect ==
    /\ effectPending
    /\ effectPending' = FALSE
    /\ uniforms' = IF meshAttached
                   THEN Pushed([uniforms EXCEPT !.map = "texture"], controls)
                   ELSE [uniforms EXCEPT !.map = "texture"]
    /\ UNCHANGED <<controls, meshAttached, frameShot>>
    /\ UNCHANGED otherThanPanel

\* the panel changes one control: the component renders again and the
\* effect is scheduled
ControlChange ==
    /\ ~effectPending
    /\ \E name \in ControlNames : \E v \in ControlRange(name) :
         /\ controls[name] # v
         /\ controls' = [controls EXCEPT ![name] = v]
    /\ effectPending' = TRUE
    /\ UNCHANGED <<uniforms, meshAttached, frameShot>>
    /\ UNCHANGED otherThanPanel

UniformsMatchControls(u, c) ==
    /\ u.nearClipping = c.nearClipping
    /\ u.farClipping = c.farClipping
    /\ u.pointSize = c.pointSize
    /\ u.zOffset = c.zOffset
    /\ u.circleRadius = c.circleRadius
    /\ u.videoColor = c.videoColor

\* the render loop draws a frame with the uniforms as they are
RenderFrame ==
    /\ frameShot' = [drawn |-> TRUE,
                     synced |-> UniformsMatchControls(uniforms, controls),
                     near |-> uniforms.nearClipping,
                     far |-> uniforms.farClipping]
    /\ UNCHANGED <<controls, uniforms, meshAttached, effectPending>>
    /\ UNCHANGED otherThanPanel

PanelNext == UniformEffect \/ ControlChange \/ RenderFrame

----------------------------------------------------------------------------
(* Camera controller                                                       *)

\* window.innerWidth and window.innerHeight; clientX, clientY range over
\* 0..InnerSize
InnerSize == 2
MaxFrames == 2

\* (event.clientX - window.innerWidth / 2) * 8
PointerTarget(client, inner) == 8 * client - 4 * inner

\* the ease factor 0.01 is 1 / EaseDen; a camera coordinate after n frames
\* is camNum / EaseDen^n, kept exactly
EaseDen == 100

RECURSIVE Pow(_, _)
Pow(b, n) == IF n = 0 THEN 1 ELSE b * Pow(b, n - 1)

\* an ease that adds the whole difference on top of the scaled step
EaseTooFar(num, goal, n) == EaseDen * num + (EaseDen + 1) * (goal * Pow(EaseDen, n) - num)

\* numerator over EaseDen^(n+1) of  c + (goal - c) * 0.01  for c = num / EaseDen^n
Ease(num, goal, n) == EaseDen * num + (goal * Pow(EaseDen, n) - num)

\* mouseRef = (0, 0, 1), camera.position = (0, 0, 500)
CameraInit ==
    /\ mouseRef = [x |-> 0, y |-> 0]
    /\ camNum = [x |-> 0, y |-> 0]
    /\ frames = 0

\* handleMouseMove
HandleMouseMove ==
    /\ \E cx \in 0..InnerSize, cy \in 0..InnerSize :
         mouseRef' = [x |-> PointerTarget(cx, InnerSize),
                      y |-> PointerTarget(cy, InnerSize)]
    /\ UNCHANGED <<camNum, frames>>
    /\ UNCHANGED otherThanCamera

\* the useFrame callback
Frame ==
    /\ frames < MaxFrames
    /\ camNum' = [x |-> Ease(camNum.x, mouseRef.x, frames),
                  y |-> Ease(camNum.y, -mouseRef.y, frames)]
    /\ frames' = frames + 1
    /\ UNCHANGED mouseRef
    /\ UNCHANGED otherThanCamera

CameraNext == HandleMouseMove \/ Frame

----------------------------------------------------------------------------
(* Specifications                                                          *)

\* the grid variables when the grid is not being stepped: the program's grid
GridIdle ==
    /\ width = 640 /\ height = 480 /\ vertices = <<>>
    /\ gi = 0 /\ gj = 0 /\ gpc = "idle"

Init == VideoInit /\ GridIdle /\ PanelInit /\ CameraInit
Next == VideoNext
Spec == Init /\ [][Next]_vars

GridSpecInit == VideoInit /\ GridInit /\ PanelInit /\ CameraInit
GridSpec == GridSpecInit /\ [][GridNext]_vars

PanelSpec == Init /\ [][PanelNext]_vars

CameraSpec == Init /\ [][CameraNext]_vars

----------------------------------------------------------------------------
(* Properties                                                              *)

\* the error overlay of handleVideoError is showing
IsDiagnostic(text) == \E err \in MediaErrors : text = ErrorText(err)

\* the overlay of the render tree: {videoLoadError && <div>...</div>}
OverlayRendered == phase = "live" /\ videoLoadError # NoOverlay

\* C1: once the unmount cleanup has run, whatever state the video source was
\* in, no click or mousemove listener is registered on the document, no
\* listener is registered on the video element, the element is out of the
\* document and the texture is disposed, and none becomes registered later
C1_TeardownReleasesAll ==
    phase = "unmounted" =>
        /\ clickHandlers = 0
        /\ ~mouseMoveHandler
        /\ videoListeners = {}
        /\ ~inBody
        /\ textureDisposed

\* C2: when the initial play() promise rejects, the state becomes blocked:
\* the click-to-resume overlay text is set, the playing flag is false and a
\* document click handler is registered; when the play() of a later click
\* resolves, the playing flag is true, the overlay text is cleared and the
\* click handler is deregistered
C2_AutoplayBlockedRecovery ==
    [][ /\ (phase = "live" /\ initPromise # "rejected" /\ initPromise' = "rejected")
           => /\ videoLoadError' = BlockedText
              /\ videoLoadError' # NoOverlay
              /\ ~videoPlaying'
              /\ clickHandlers' = 1
        /\ (phase = "live" /\ clickPromise = "pending" /\ clickPromise' = "resolved")
           => /\ videoPlaying'
              /\ videoLoadError' = NoOverlay
              /\ clickHandlers' = 0 ]_vars

\* a mounted scene that was blocked and has recovered through a click
C2_Witness ==
    /\ phase = "live"
    /\ initPromise = "rejected"
    /\ clickPromise = "resolved"
    /\ videoPlaying
    /\ videoLoadError = NoOverlay
    /\ clickHandlers = 0

\* C3: once an 'error' event has put the diagnostic overlay up, no later step
\* of the mounted scene takes the state out of errored: the overlay stays a
\* diagnostic overlay and the playing flag stays false
C3_ErrorIsTerminal ==
    [][ (phase = "live" /\ phase' = "live" /\ IsDiagnostic(videoLoadError))
        => (IsDiagnostic(videoLoadError') /\ ~videoPlaying') ]_vars

\* C4: the overlay is never rendered while the state is loading or playing:
\* the playing flag is never true while an overlay text is set
C4_OverlayStateConsistency == ~(OverlayRendered /\ videoPlaying)

\* C5: an 'error' event of the mounted scene, from whatever playback state,
\* leaves the playing flag false and an overlay text that contains the
\* error's code and its message
C5_ErrorEventShowsCodeAndMessage ==
    [][ (HandleVideoError /\ phase = "live")
        => /\ ~videoPlaying'
           /\ videoLoadError' # NoOverlay
           /\ Contains(videoLoadError', ToStr(videoError'.code))
           /\ Contains(videoLoadError', videoError'.message) ]_vars

\* the overlay after an error event with code 4, "format not supported"
C5_Witness ==
    /\ phase = "live"
    /\ videoError = [code |-> 4, message |-> "format not supported"]
    /\ videoLoadError = ErrorText(videoError)
    /\ Contains(videoLoadError, "4")
    /\ Contains(videoLoadError, "format not supported")
    /\ ~videoPlaying

\* C10: at most one click retry handler is registered, it stays registered
\* from the rejection of autoplay until a play() call has resolved, and the
\* click failure overlay is never showing with no click handler registered
C10_RetryHandlerAvailable ==
    /\ clickHandlers <= 1
    /\ (phase = "live" /\ initPromise = "rejected" /\ clickPromise # "resolved")
       => clickHandlers = 1
    /\ (OverlayRendered /\ \E msg \in PlayErrorMessages : videoLoadError = ClickFailText(msg))
       => clickHandlers = 1

\* C6: the finished buffer holds 3 * width * height numbers, entry j is
\* (j mod width, floor(j / width), 0), and every cell of the grid occurs
\* exactly once
C6_GridPositions ==
    gpc = "done" =>
        /\ Len(vertices) = 3 * width * height
        /\ \A j \in 0..(width * height - 1) :
             Position(j) = <<j % width, j \div width, 0>>
        /\ \A x \in 0..(width - 1), y \in 0..(height - 1) :
             Cardinality({j \in 0..(width * height - 1) :
                            Position(j)[1] = x /\ Position(j)[2] = y}) = 1

\* a finished grid with more than one row and more than one column
C6_Witness == gpc = "done" /\ width >= 3 /\ height >= 2 /\ gj = width * height

\* the depths of a drawn frame fall (weakly) as luminance rises
DepthNonIncreasing(near, far) ==
    \A s1, s2 \in LumLevels : s1 < s2 => Depth(s1, near, far) >= Depth(s2, near, far)

\* luminance 0 gives farClipping and luminance 1 gives nearClipping
DepthEndpoints(near, far) ==
    /\ Depth(0, near, far) = far * LumDen
    /\ Depth(LumDen, near, far) = near * LumDen

\* C7 as stated: in every drawn frame, whatever nearClipping and farClipping
\* the panel pushed, z is monotonic decreasing in luminance, with luminance 0
\* at farClipping and luminance 1 at nearClipping
C7_DepthDecreasingForAllPairs ==
    frameShot.drawn =>
        /\ DepthNonIncreasing(frameShot.near, frameShot.far)
        /\ DepthEndpoints(frameShot.near, frameShot.far)

\* C7 amended: in every drawn frame luminance 0 gives farClipping and
\* luminance 1 gives nearClipping, and z is monotonic decreasing in
\* luminance whenever nearClipping <= farClipping
C7_DepthDecreasingWhenOrdered ==
    frameShot.drawn =>
        /\ DepthEndpoints(frameShot.near, frameShot.far)
        /\ frameShot.near <= frameShot.far
           => DepthNonIncreasing(frameShot.near, frameShot.far)

\* a frame drawn with clipping values the panel changed, in the usual order
C7_Witness ==
    /\ frameShot.drawn
    /\ frameShot.near = 1
    /\ frameShot.far = 10000

\* C9: at every rendered frame the six panel uniforms equal the controls,
\* and width and height stay as constructed
C9_UniformsSyncedAtEveryFrame ==
    /\ frameShot.drawn => frameShot.synced
    /\ uniforms.width = 640
    /\ uniforms.height = 480

Abs(n) == IF n < 0 THEN -n ELSE n

CameraAxes == {"x", "y"}

\* what the ease moves a camera coordinate toward
GoalOf(axis) == IF axis = "x" THEN mouseRef.x ELSE -mouseRef.y

\* camera coordinate minus goal, times EaseDen^frames
Gap(axis) == camNum[axis] - GoalOf(axis) * Pow(EaseDen, frames)

\* the camera does not pass beyond the goal in this step
NoOvershoot(axis) ==
    /\ Gap(axis) >= 0 => Gap(axis)' >= 0
    /\ Gap(axis) <= 0 => Gap(axis)' <= 0

\* C8 as stated: on every frame and for each axis the distance to the goal
\* strictly decreases and the camera does not pass beyond the goal, for
\* every camera position, one at the goal included
C8_DistanceStrictlyDecreases ==
    [][ frames' = frames + 1 =>
          \A axis \in CameraAxes :
            /\ Abs(Gap(axis)') < EaseDen * Abs(Gap(axis))
            /\ NoOvershoot(axis) ]_vars

\* C8 amended: on every frame and for each axis the distance to the goal
\* does not increase and the camera does not pass beyond the goal; the
\* distance strictly decreases when the camera is not at the goal, and a
\* camera at the goal stays there
C8_DistanceDecreasesAwayFromGoal ==
    [][ frames' = frames + 1 =>
          \A axis \in CameraAxes :
            /\ Abs(Gap(axis)') <= EaseDen * Abs(Gap(axis))
            /\ NoOvershoot(axis)
            /\ Gap(axis) # 0 => Abs(Gap(axis)') < EaseDen * Abs(Gap(axis))
            /\ Gap(axis) = 0 => Gap(axis)' = 0 ]_vars

\* two frames have eased the camera toward a pointer target off the centre,
\* on both axes, and it has not arrived
C8_Witness ==
    /\ frames = 2
    /\ \A axis \in CameraAxes : GoalOf(axis) # 0 /\ camNum[axis] # 0 /\ Gap(axis) # 0

====
